---- MODULE Spec2Model ----
(***************************************************************************)
(* Model of ImageManagementScript.py: the title normalizer clean_string,   *)
(* the resolver ImageManager.find_image / find_image_by_title_only, the    *)
(* transfer ImageManager.copy_image, ExcelHandler.update_images and the    *)
(* orchestrating loop of process_images.                                   *)
(*                                                                         *)
(* Strings on which the code works character by character (titles, file   *)
(* and folder names) are sequences of one-character strings.  Python's     *)
(* None (and pandas' NaN) is the value None.                               *)
(***************************************************************************)
EXTENDS Integers, Sequences, FiniteSets, TLC

VARIABLES
    source_tree,   \* the file tree under SOURCE_DIR: distributor -> node
    call,          \* the function last called directly, with its arguments
    result,        \* what that call returned (or raised)
    catalog,       \* df_movies: the rows (Title, Distributor) of sheet 'Movies'
    sheet,         \* the workbook's sheet 'Movies': rows (title, Poster, Still)
    pc,            \* position of process_images
    i,             \* number of catalog rows the loop has finished
    title_str,     \* locals of the loop body of process_images
    distributor_str,
    poster_path,
    still_path,
    poster_name,
    still_name,
    movie_data,    \* dict title -> {Poster, Still}, in insertion order
    not_found,     \* defaultdict(list): distributor -> titles
    copy_errors,   \* img_manager.copy_errors
    downloaded,    \* the files present under download_dir
    report,        \* what generate_report was given and wrote, None before
    outcomes,      \* history: per finished row, what the loop body computed
    attempts,      \* history: the copy_image attempts of the current row
    events         \* history: the order of the steps of the run

vars == <<source_tree, call, result, catalog, sheet, pc, i, title_str,
          distributor_str, poster_path, still_path, poster_name, still_name,
          movie_data, not_found, copy_errors, downloaded, report, outcomes,
          attempts, events>>

runVars == <<catalog, sheet, pc, i, title_str, distributor_str, poster_path,
             still_path, poster_name, still_name, movie_data, not_found,
             copy_errors, downloaded, report, outcomes, attempts, events>>

\* None: no sequence of characters and no path equals it
None == <<"None">>

----------------------------------------------------------------------------
(* Bounds of the model *)

MaxLen == 3      \* longest string given to clean_string on its own
MaxFiles == 3    \* most entries in the source tree of one distributor
MaxRows == 2     \* most rows in the catalog

----------------------------------------------------------------------------
(* Characters and strings *)

Uppers == <<"A","B","C","D","E","F","G","H","I","J","K","L","M",
            "N","O","P","Q","R","S","T","U","V","W","X","Y","Z">>
Lowers == <<"a","b","c","d","e","f","g","h","i","j","k","l","m",
            "n","o","p","q","r","s","t","u","v","w","x","y","z">>
Digits == {"0","1","2","3","4","5","6","7","8","9"}

Range(s) == {s[k] : k \in 1..Len(s)}

UpperSet == Range(Uppers)
LowerSet == Range(Lowers)
\* str.lower() on the upper-case letters
LowerOf == [c \in UpperSet |-> Lowers[CHOOSE k \in 1..Len(Uppers) : Uppers[k] = c]]

IsUpper(c) == c \in UpperSet
IsLower(c) == c \in LowerSet
IsLetter(c) == IsUpper(c) \/ IsLower(c)
IsDigit(c) == c \in Digits
IsSpace(c) == c = " "

\* str.lower() on one character
LowerChar(c) == IF IsUpper(c) THEN LowerOf[c] ELSE c

\* the regular expression class \w: letters, digits and the underscore
IsWordChar(c) == IsLetter(c) \/ IsDigit(c) \/ c = "_"

\* "sub in s" on Python strings
Contains(sub, s) ==
    \E k \in 0..(Len(s) - Len(sub)) : SubSeq(s, k + 1, k + Len(sub)) = sub

\* str.strip()
RECURSIVE LStrip(_)
LStrip(s) == IF s # <<>> /\ IsSpace(Head(s)) THEN LStrip(Tail(s)) ELSE s
RECURSIVE RStrip(_)
RStrip(s) ==
    IF s # <<>> /\ IsSpace(s[Len(s)]) THEN RStrip(SubSeq(s, 1, Len(s) - 1)) ELSE s
Strip(s) == RStrip(LStrip(s))

\* re.sub(r'\W+', '', s).lower() if s else ''
clean_string(s) ==
    IF s = None \/ s = <<>> THEN <<>>
    ELSE LET kept == SelectSeq(s, IsWordChar)
         IN  [k \in 1..Len(kept) |-> LowerChar(kept[k])]

----------------------------------------------------------------------------
(* Names used by the code and by the inputs of the model *)

POSTER == <<"P","o","s","t","e","r">>
STILL == <<"S","t","i","l","l">>
HORIZONTAL_POSTERS ==
    <<"H","o","r","i","z","o","n","t","a","l"," ","P","o","s","t","e","r","s">>
HorizontalPostersExtra == HORIZONTAL_POSTERS \o <<" ","E","x","t","r","a">>
PRIORITY_1 == <<"(","1",")">>
PRIORITY_2 == <<"(","2",")">>
UNDEFINED_DISTRIBUTOR ==
    <<"U","N","D","E","F","I","N","E","D"," ",
      "D","I","S","T","R","I","B","U","T","O","R">>
UNDEFINED_TITLE ==
    <<"U","n","d","e","f","i","n","e","d"," ","t","i","t","l","e">>

FolderTypes == {POSTER, STILL}
FolderNames == {POSTER, STILL, HorizontalPostersExtra}

DistX == <<"D","X">>
DistY == <<"D","Y">>
Distributors == {DistX, DistY}

Name_X == <<"X",".","j","p","g">>
Name_X1 == <<"X","(","1",")",".","j","p","g">>
Name_X2 == <<"X","(","2",")",".","j","p","g">>
Name_Y == <<"Y",".","j","p","g">>
Dir_X1 == <<"X","(","1",")">>
SubDir == <<"s","u","b">>

\* What a recursive walk of a folder can meet: a file directly in the folder,
\* a file in a subfolder, and a directory whose name looks like a title.
EntryPool ==
    { [name |-> Name_X2, sub |-> <<>>, is_file |-> TRUE],
      [name |-> Name_X1, sub |-> <<SubDir>>, is_file |-> TRUE],
      [name |-> Name_X, sub |-> <<>>, is_file |-> TRUE],
      [name |-> Name_Y, sub |-> <<>>, is_file |-> TRUE],
      [name |-> Dir_X1, sub |-> <<>>, is_file |-> FALSE] }

Title_X == <<"X">>
Title_x == <<" ","x","!">>
Title_Y == <<"Y">>
Title_blank == <<" ">>

----------------------------------------------------------------------------
(* The source tree *)

AbsentFolder == [kind |-> "absent", list |-> <<>>]
FileFolder == [kind |-> "file", list |-> <<>>]
DirFolder(list) == [kind |-> "dir", list |-> list]

AbsentNode == [kind |-> "absent", sub |-> [f \in FolderNames |-> AbsentFolder]]
FileNode == [kind |-> "file", sub |-> [f \in FolderNames |-> AbsentFolder]]
DirNode(sub) == [kind |-> "dir", sub |-> sub]

\* Path.exists()
Exists(node) == node.kind # "absent"
\* Path.is_dir()
IsDir(node) == node.kind = "dir"

\* the path of an entry of folder f of distributor d
PathOf(d, f, e) == <<d, f>> \o e.sub \o <<e.name>>
\* Path.name
NameOf(path) == path[Len(path)]

\* target_folder.rglob("*"): the entries under the folder in enumeration order;
\* nothing when the path is not a directory
RGlob(folder) == IF folder.kind = "dir" THEN folder.list ELSE <<>>

----------------------------------------------------------------------------
(* ImageManager.find_image and find_image_by_title_only *)

ReturnNone == [kind |-> "none"]
ReturnPath(p) == [kind |-> "path", path |-> p]
Raise(exc) == [kind |-> "raise", exc |-> exc]

\* file.is_file() and clean_string(movie_title) in clean_string(file.name)
IsMatchEquality(title, e) == e.is_file /\ clean_string(title) = clean_string(e.name)
IsMatch(title, e) == e.is_file /\ Contains(clean_string(title), clean_string(e.name))

\* matching_files of find_image
MatchingFiles(title, folder) ==
    LET Test(e) == IsMatch(title, e) IN SelectSeq(RGlob(folder), Test)

\* poster_folders of find_image
PosterFolders(node) ==
    {f \in FolderNames :
        Exists(node.sub[f]) /\ Contains(POSTER, f) /\ IsDir(node.sub[f])}

\* the name of target_folder of find_image
TargetFolderCategoryOnly(node, folder_type) == folder_type
TargetFolder(node, folder_type) ==
    LET poster_folders == PosterFolders(node)
    IN  IF /\ Cardinality(poster_folders) = 1
           /\ \A f \in poster_folders : Contains(HORIZONTAL_POSTERS, f)
        THEN CHOOSE f \in poster_folders : TRUE
        ELSE folder_type

\* the first element of files whose name holds tag, 0 when there is none
FirstWith(tag, files) ==
    LET hits == {k \in 1..Len(files) : Contains(tag, files[k].name)}
    IN  IF hits = {} THEN 0 ELSE CHOOSE k \in hits : \A m \in hits : k <= m

\* the loops over priority_tag and matching_files, then matching_files[0]
PickFirst(files) == IF files = <<>> THEN 0 ELSE 1
Pick(files) ==
    IF FirstWith(PRIORITY_1, files) # 0 THEN FirstWith(PRIORITY_1, files)
    ELSE IF FirstWith(PRIORITY_2, files) # 0 THEN FirstWith(PRIORITY_2, files)
    ELSE IF files # <<>> THEN 1
    ELSE 0

find_image(tree, movie_title, distributor, folder_type) ==
    LET node == tree[distributor] IN
    IF ~Exists(node) THEN ReturnNone
    ELSE IF ~IsDir(node) THEN Raise("NotADirectoryError")
    ELSE LET target == TargetFolder(node, folder_type)
             matching_files == MatchingFiles(movie_title, node.sub[target])
             k == Pick(matching_files)
         IN  IF ~Exists(node.sub[target]) THEN ReturnNone
             ELSE IF k # 0
                  THEN ReturnPath(PathOf(distributor, target, matching_files[k]))
                  ELSE ReturnNone

find_image_by_title_only(tree, title, distributor, folder_type) ==
    LET node == tree[distributor] IN
    IF ~Exists(node) THEN ReturnNone
    ELSE IF ~IsDir(node) \/ ~Exists(node.sub[folder_type]) THEN ReturnNone
    ELSE LET found == MatchingFiles(title, node.sub[folder_type])
         IN  IF found # <<>>
             THEN ReturnPath(PathOf(distributor, folder_type, found[1]))
             ELSE ReturnNone

----------------------------------------------------------------------------
(* The source trees of the model *)

RECURSIVE Listings(_)
\* the enumeration orders of at most n distinct entries
Listings(n) ==
    IF n = 0 THEN {<<>>}
    ELSE LET shorter == Listings(n - 1)
         IN  shorter \cup
             {Append(l, e) : <<l, e>> \in
                 {p \in shorter \X EntryPool :
                     Len(p[1]) = n - 1 /\ p[2] \notin Range(p[1])}}

FolderStates(n) == {AbsentFolder, FileFolder} \cup {DirFolder(l) : l \in Listings(n)}

RECURSIVE SubFolders(_, _)
\* the contents of a distributor folder: every folder of S absent, a regular
\* file or a directory, with at most n entries below them in all
SubFolders(S, n) ==
    IF S = {} THEN {<<>>}
    ELSE LET f == CHOOSE x \in S : TRUE
         IN  UNION {{(f :> st) @@ g : g \in SubFolders(S \ {f}, n - Len(st.list))} :
                        st \in FolderStates(n)}

NodeSet == {AbsentNode, FileNode} \cup {DirNode(sub) : sub \in SubFolders(FolderNames, MaxFiles)}

----------------------------------------------------------------------------
(* The run of process_images before it starts *)

RunIdle ==
    /\ catalog = <<>>
    /\ sheet = <<>>
    /\ pc = "idle"
    /\ i = 0
    /\ title_str = None
    /\ distributor_str = None
    /\ poster_path = None
    /\ still_path = None
    /\ poster_name = None
    /\ still_name = None
    /\ movie_data = <<>>
    /\ not_found = <<>>
    /\ copy_errors = <<>>
    /\ downloaded = {}
    /\ report = <<>>
    /\ outcomes = <<>>
    /\ attempts = <<>>
    /\ events = <<>>

NoCall == [fn |-> "none"]

----------------------------------------------------------------------------
(* clean_string called on its own *)

CleanChars == {"A", "b", "1", "_", " ", "!"}

RECURSIVE Strings(_)
Strings(n) ==
    IF n = 0 THEN {<<>>}
    ELSE LET shorter == Strings(n - 1)
         IN  shorter \cup
             {Append(s, c) : <<s, c>> \in {p \in shorter \X CleanChars : Len(p[1]) = n - 1}}

CleanInputs == {None} \cup Strings(MaxLen)

InitClean ==
    /\ source_tree = [d \in Distributors |-> AbsentNode]
    /\ call = NoCall
    /\ result = None
    /\ RunIdle

\* one behaviour is one call of clean_string on one input
CallCleanString ==
    \E s \in CleanInputs :
        /\ call = NoCall
        /\ call' = [fn |-> "clean_string", s |-> s]
        /\ result' = clean_string(s)
        /\ UNCHANGED <<source_tree, runVars>>

NextClean == CallCleanString

SpecClean == InitClean /\ [][NextClean]_vars

----------------------------------------------------------------------------
(* The resolver called on its own *)

Titles == {Title_X, Title_x, Title_Y}

InitResolve ==
    /\ \E node \in NodeSet :
           source_tree = [d \in Distributors |-> IF d = DistX THEN node ELSE AbsentNode]
    /\ call = NoCall
    /\ result = None
    /\ RunIdle

\* one behaviour is one call of a resolver on one source tree
CallFindImage ==
    \E title \in Titles, d \in Distributors, ft \in FolderTypes :
        /\ call = NoCall
        /\ call' = [fn |-> "find_image", title |-> title, distributor |-> d,
                    folder_type |-> ft]
        /\ result' = find_image(source_tree, title, d, ft)
        /\ UNCHANGED <<source_tree, runVars>>

CallFindImageByTitleOnly ==
    \E title \in Titles, d \in Distributors, ft \in FolderTypes :
        /\ call = NoCall
        /\ call' = [fn |-> "find_image_by_title_only", title |-> title,
                    distributor |-> d, folder_type |-> ft]
        /\ result' = find_image_by_title_only(source_tree, title, d, ft)
        /\ UNCHANGED <<source_tree, runVars>>

NextResolve == CallFindImage \/ CallFindImageByTitleOnly

SpecResolve == InitResolve /\ [][NextResolve]_vars

----------------------------------------------------------------------------
(* ImageManager.copy_image *)

CopyOutcomes == {"ok", "PermissionError", "OSError"}

\* What copy_image returns and leaves behind, given how mkdir and shutil.copy
\* end: the filename and the copied file, or None and the source path appended
\* to copy_errors.
copy_image_permission_only(src_path, distributor, folder_type, outcome, errors, files) ==
    IF outcome = "ok"
    THEN [name |-> NameOf(src_path), copy_errors |-> errors,
          files |-> files \cup {<<distributor, folder_type, NameOf(src_path)>>}]
    ELSE IF outcome = "PermissionError"
    THEN [name |-> None, copy_errors |-> Append(errors, src_path), files |-> files]
    ELSE [name |-> None, copy_errors |-> errors, files |-> files]
copy_image(src_path, distributor, folder_type, outcome, errors, files) ==
    IF outcome = "ok"
    THEN [name |-> NameOf(src_path), copy_errors |-> errors,
          files |-> files \cup {<<distributor, folder_type, NameOf(src_path)>>}]
    ELSE IF outcome = "PermissionError"
    THEN [name |-> None, copy_errors |-> Append(errors, src_path), files |-> files]
    ELSE [name |-> None, copy_errors |-> Append(errors, src_path), files |-> files]

----------------------------------------------------------------------------
(* ExcelHandler.update_images *)

OLD_NAME == <<"o","l","d",".","j","p","g">>

\* the sheet 'Movies' as load_workbook finds it: one row per catalog row, the
\* Poster column holding an earlier filename, the Still column empty
InitialSheet(rows) ==
    [k \in 1..Len(rows) |->
        [title |-> rows[k].Title, Poster |-> OLD_NAME, Still |-> None]]

\* truth value of an optional string
Truthy(v) == v # None /\ v # <<>>

\* sheet_title_map[cleaned]: the last row whose title normalizes to cleaned,
\* 0 when the map has no such key
SheetRow(sh, cleaned) ==
    LET rows == {k \in 1..Len(sh) :
                    Truthy(sh[k].title) /\ clean_string(sh[k].title) = cleaned}
    IN  IF rows = {} THEN 0 ELSE CHOOSE k \in rows : \A m \in rows : m <= k

\* the two conditional assignments to cell.offset(0, 2) and cell.offset(0, 3)
WriteCellsAlways(row, images) ==
    [row EXCEPT !.Poster = images.Poster, !.Still = images.Still]
WriteCells(row, images) ==
    [row EXCEPT !.Poster = IF Truthy(images.Poster) THEN images.Poster ELSE @,
                !.Still = IF Truthy(images.Still) THEN images.Still ELSE @]

RECURSIVE update_images(_, _)
\* the loop over movie_data.items(), in insertion order
update_images(sh, data) ==
    IF data = <<>> THEN sh
    ELSE LET images == Head(data)
             k == SheetRow(sh, clean_string(images.title))
         IN  update_images(IF k = 0 THEN sh
                           ELSE [sh EXCEPT ![k] = WriteCells(sh[k], images)],
                           Tail(data))

----------------------------------------------------------------------------
(* The dictionaries of process_images *)

\* movie_data[title] = {"Poster": ..., "Still": ...}
DictSet(data, title, poster, still) ==
    LET item == [title |-> title, Poster |-> poster, Still |-> still]
        at == {k \in 1..Len(data) : data[k].title = title}
    IN  IF at = {} THEN Append(data, item)
        ELSE [k \in 1..Len(data) |-> IF k \in at THEN item ELSE data[k]]

DictHas(data, title) == \E k \in 1..Len(data) : data[k].title = title
DictGet(data, title) == data[CHOOSE k \in 1..Len(data) : data[k].title = title]

\* not_found[key].append(title) on a defaultdict(list)
ListAppend(lists, key, title) ==
    LET at == {k \in 1..Len(lists) : lists[k].key = key}
    IN  IF at = {} THEN Append(lists, [key |-> key, titles |-> <<title>>])
        ELSE [k \in 1..Len(lists) |->
                 IF k \in at THEN [lists[k] EXCEPT !.titles = Append(@, title)]
                 ELSE lists[k]]

\* not_found[key], empty for a key never appended to
ListOf(lists, key) ==
    LET at == {k \in 1..Len(lists) : lists[k].key = key}
    IN  IF at = {} THEN <<>> ELSE lists[CHOOSE k \in at : TRUE].titles

----------------------------------------------------------------------------
(* generate_report *)

\* the distributors of sheet 'Distributor_contact'
Contacts == {DistX}

RECURSIVE TotalMissing(_)
TotalMissing(lists) ==
    IF lists = <<>> THEN 0 ELSE Len(Head(lists).titles) + TotalMissing(Tail(lists))

generate_report(lists, errors) ==
    [total_missing |-> TotalMissing(lists),
     sections |-> IF TotalMissing(lists) > 0
                  THEN [k \in 1..Len(lists) |->
                           [distributor |-> lists[k].key,
                            titles |-> lists[k].titles,
                            email_draft |-> lists[k].key \in Contacts]]
                  ELSE <<>>,
     errors |-> errors]

----------------------------------------------------------------------------
(* process_images *)

RawTitles == {None, Title_blank, Title_X, Title_x}
RawDistributors == {None} \cup Distributors
CatalogRows == [Title : RawTitles, Distributor : RawDistributors]

RECURSIVE Catalogs(_)
Catalogs(n) ==
    IF n = 0 THEN {<<>>}
    ELSE LET shorter == Catalogs(n - 1)
         IN  shorter \cup
             {Append(c, r) : <<c, r>> \in {p \in shorter \X CatalogRows : Len(p[1]) = n - 1}}

\* the distributor folders the run is tried on
PosterOnlyNode ==
    DirNode((POSTER :> DirFolder(<<[name |-> Name_X, sub |-> <<>>, is_file |-> TRUE]>>))
            @@ [f \in FolderNames |-> AbsentFolder])
BothNode ==
    DirNode((POSTER :> DirFolder(<<[name |-> Name_X2, sub |-> <<>>, is_file |-> TRUE],
                                   [name |-> Name_X1, sub |-> <<SubDir>>, is_file |-> TRUE]>>))
            @@ (STILL :> DirFolder(<<[name |-> Name_X, sub |-> <<>>, is_file |-> TRUE]>>))
            @@ [f \in FolderNames |-> AbsentFolder])
HorizontalNode ==
    DirNode((HorizontalPostersExtra :>
                DirFolder(<<[name |-> Name_X, sub |-> <<>>, is_file |-> TRUE]>>))
            @@ [f \in FolderNames |-> AbsentFolder])
RunNodes == {AbsentNode, FileNode, PosterOnlyNode, BothNode, HorizontalNode}

\* str(v).strip() if pd.notna(v) else None
StrStrip(v) == IF v = None THEN None ELSE Strip(v)

\* find_image, then find_image_by_title_only when it found nothing
Resolve(tree, title, distributor, folder_type) ==
    LET first == find_image(tree, title, distributor, folder_type)
    IN  IF first.kind = "none"
        THEN find_image_by_title_only(tree, title, distributor, folder_type)
        ELSE first

PathOrNone(r) == IF r.kind = "path" THEN r.path ELSE None

\* not poster_name and not still_name
NoneCopiedPosterOnly(poster, still) == ~Truthy(poster)
NoneCopied(poster, still) == ~Truthy(poster) /\ ~Truthy(still)

Init ==
    /\ source_tree \in [Distributors -> RunNodes]
    /\ call = NoCall
    /\ result = None
    /\ catalog \in Catalogs(MaxRows)
    /\ sheet = InitialSheet(catalog)
    /\ pc = "loop"
    /\ i = 0
    /\ title_str = None
    /\ distributor_str = None
    /\ poster_path = None
    /\ still_path = None
    /\ poster_name = None
    /\ still_name = None
    /\ movie_data = <<>>
    /\ not_found = <<>>
    /\ copy_errors = <<>>
    /\ downloaded = {}
    /\ report = <<>>
    /\ outcomes = <<>>
    /\ attempts = <<>>
    /\ events = <<>>

RowTitle == StrStrip(catalog[i + 1].Title)
RowDistributor == StrStrip(catalog[i + 1].Distributor)
RowValid == Truthy(RowTitle) /\ Truthy(RowDistributor)

\* a row without title or distributor: recorded as unmatched, then `continue`
SkipEntry ==
    /\ pc = "loop"
    /\ i < Len(catalog)
    /\ ~RowValid
    /\ title_str' = RowTitle
    /\ distributor_str' = RowDistributor
    /\ not_found' = ListAppend(not_found,
                               IF Truthy(RowDistributor) THEN RowDistributor
                               ELSE UNDEFINED_DISTRIBUTOR,
                               IF Truthy(RowTitle) THEN RowTitle ELSE UNDEFINED_TITLE)
    /\ outcomes' = Append(outcomes, [valid |-> FALSE, title |-> RowTitle,
                                     distributor |-> RowDistributor,
                                     poster_name |-> None, still_name |-> None])
    /\ events' = events \o <<<<"entry", i + 1>>, <<"recorded", i + 1>>>>
    /\ i' = i + 1
    /\ UNCHANGED <<source_tree, call, result, catalog, sheet, pc, poster_path,
                   still_path, poster_name, still_name, movie_data, copy_errors,
                   downloaded, report, attempts>>

\* the four resolver calls of a valid row
ResolveEntry ==
    /\ pc = "loop"
    /\ i < Len(catalog)
    /\ RowValid
    /\ LET poster == Resolve(source_tree, RowTitle, RowDistributor, POSTER)
           still == Resolve(source_tree, RowTitle, RowDistributor, STILL)
       IN  /\ poster.kind # "raise" /\ still.kind # "raise"
           /\ poster_path' = PathOrNone(poster)
           /\ still_path' = PathOrNone(still)
    /\ title_str' = RowTitle
    /\ distributor_str' = RowDistributor
    /\ events' = Append(events, <<"entry", i + 1>>)
    /\ pc' = "copy_poster"
    /\ UNCHANGED <<source_tree, call, result, catalog, sheet, i, poster_name,
                   still_name, movie_data, not_found, copy_errors, downloaded,
                   report, outcomes, attempts>>

\* a resolver call of a valid row raises: nothing in process_images catches it
ResolveRaises ==
    /\ pc = "loop"
    /\ i < Len(catalog)
    /\ RowValid
    /\ \/ Resolve(source_tree, RowTitle, RowDistributor, POSTER).kind = "raise"
       \/ Resolve(source_tree, RowTitle, RowDistributor, STILL).kind = "raise"
    /\ title_str' = RowTitle
    /\ distributor_str' = RowDistributor
    /\ events' = Append(events, <<"entry", i + 1>>)
    /\ pc' = "aborted"
    /\ UNCHANGED <<source_tree, call, result, catalog, sheet, i, poster_path,
                   still_path, poster_name, still_name, movie_data, not_found,
                   copy_errors, downloaded, report, outcomes, attempts>>

\* poster_name = copy_image(poster_path, ...) if poster_path else None
CopyPoster ==
    /\ pc = "copy_poster"
    /\ IF poster_path = None
       THEN /\ poster_name' = None
            /\ UNCHANGED <<copy_errors, downloaded, attempts>>
       ELSE \E outcome \in CopyOutcomes :
              LET r == copy_image(poster_path, distributor_str, POSTER, outcome,
                                  copy_errors, downloaded)
              IN  /\ poster_name' = r.name
                  /\ copy_errors' = r.copy_errors
                  /\ downloaded' = r.files
                  /\ attempts' = Append(attempts, [src |-> poster_path,
                                                   outcome |-> outcome])
    /\ pc' = "copy_still"
    /\ UNCHANGED <<source_tree, call, result, catalog, sheet, i, title_str,
                   distributor_str, poster_path, still_path, still_name,
                   movie_data, not_found, report, outcomes, events>>

\* still_name = copy_image(still_path, ...) if still_path else None
CopyStill ==
    /\ pc = "copy_still"
    /\ IF still_path = None
       THEN /\ still_name' = None
            /\ UNCHANGED <<copy_errors, downloaded, attempts>>
       ELSE \E outcome \in CopyOutcomes :
              LET r == copy_image(still_path, distributor_str, STILL, outcome,
                                  copy_errors, downloaded)
              IN  /\ still_name' = r.name
                  /\ copy_errors' = r.copy_errors
                  /\ downloaded' = r.files
                  /\ attempts' = Append(attempts, [src |-> still_path,
                                                   outcome |-> outcome])
    /\ pc' = "record"
    /\ UNCHANGED <<source_tree, call, result, catalog, sheet, i, title_str,
                   distributor_str, poster_path, still_path, poster_name,
                   movie_data, not_found, report, outcomes, events>>

\* movie_data[title_str] = ...; the append to not_found; on to the next row
Record ==
    /\ pc = "record"
    /\ movie_data' = DictSet(movie_data, title_str, poster_name, still_name)
    /\ not_found' = IF NoneCopied(poster_name, still_name)
                    THEN ListAppend(not_found, distributor_str, title_str)
                    ELSE not_found
    /\ outcomes' = Append(outcomes, [valid |-> TRUE, title |-> title_str,
                                     distributor |-> distributor_str,
                                     poster_name |-> poster_name,
                                     still_name |-> still_name])
    /\ events' = Append(events, <<"recorded", i + 1>>)
    /\ attempts' = <<>>
    /\ i' = i + 1
    /\ pc' = "loop"
    /\ UNCHANGED <<source_tree, call, result, catalog, sheet, title_str,
                   distributor_str, poster_path, still_path, poster_name,
                   still_name, copy_errors, downloaded, report>>

\* excel_handler.update_images(movie_data), after the last row
UpdateImages ==
    /\ pc = "loop"
    /\ i = Len(catalog)
    /\ sheet' = update_images(sheet, movie_data)
    /\ events' = Append(events, <<"update", 0>>)
    /\ pc' = "report"
    /\ UNCHANGED <<source_tree, call, result, catalog, i, title_str,
                   distributor_str, poster_path, still_path, poster_name,
                   still_name, movie_data, not_found, copy_errors, downloaded,
                   report, outcomes, attempts>>

\* generate_report(not_found, download_dir, distributor_contact_df, copy_errors)
GenerateReport ==
    /\ pc = "report"
    /\ report' = <<generate_report(not_found, copy_errors)>>
    /\ events' = Append(events, <<"report", 0>>)
    /\ pc' = "done"
    /\ UNCHANGED <<source_tree, call, result, catalog, sheet, i, title_str,
                   distributor_str, poster_path, still_path, poster_name,
                   still_name, movie_data, not_found, copy_errors, downloaded,
                   outcomes, attempts>>

Next ==
    \/ SkipEntry
    \/ ResolveEntry
    \/ ResolveRaises
    \/ CopyPoster
    \/ CopyStill
    \/ Record
    \/ UpdateImages
    \/ GenerateReport

Spec == Init /\ [][Next]_vars

----------------------------------------------------------------------------
(* Properties of clean_string *)

IsLowerAlnum(c) == IsLower(c) \/ IsDigit(c)
IsAlnum(c) == IsLetter(c) \/ IsDigit(c)
\* the input lowercased with every character that is no letter or digit removed
LowercasedAlnum(s) ==
    IF s = None THEN <<>>
    ELSE LET kept == SelectSeq(s, IsAlnum)
         IN  [k \in 1..Len(kept) |-> LowerChar(kept[k])]

\* C8: clean_string returns its input lowercased with every character that is
\* not a letter or digit removed, so the result holds only lowercase letters and
\* digits; empty or absent input gives the empty key.
C8_CleanIsLowercasedAlnum ==
    call.fn = "clean_string" =>
        /\ result = LowercasedAlnum(call.s)
        /\ \A k \in 1..Len(result) : IsLowerAlnum(result[k])

----------------------------------------------------------------------------
(* Properties of the resolver *)

ResolverCalled == call.fn \in {"find_image", "find_image_by_title_only"}
CalledNode == source_tree[call.distributor]

\* the candidates of a title in a folder: the files whose normalized name
\* contains the normalized title, in enumeration order
IsCandidate(title, e) ==
    e.is_file /\ Contains(clean_string(title), clean_string(e.name))
Candidates(title, folder) ==
    LET Test(e) == IsCandidate(title, e)
    IN  SelectSeq(IF folder.kind = "dir" THEN folder.list ELSE <<>>, Test)

\* the folder the specification says find_image searches
PosterDirs(node) == {f \in FolderNames : node.sub[f].kind = "dir" /\ Contains(POSTER, f)}
HorizontalCase(node) ==
    /\ Cardinality(PosterDirs(node)) = 1
    /\ \E f \in PosterDirs(node) : Contains(HORIZONTAL_POSTERS, f)
SelectedTarget(node, folder_type) ==
    IF HorizontalCase(node) THEN CHOOSE f \in PosterDirs(node) : TRUE ELSE folder_type

\* C1 as claimed: find_image(title, distributor, "Poster") returns a path to f
\* for every file f under <distributor>/Poster/ whose normalized name contains
\* the normalized title.
C1_ReturnsEveryCandidate ==
    (call.fn = "find_image" /\ call.folder_type = POSTER) =>
        \A e \in Range(Candidates(call.title, CalledNode.sub[POSTER])) :
            result = ReturnPath(PathOf(call.distributor, POSTER, e))

\* C1 as amended: when some file under <distributor>/Poster/ has a normalized
\* name containing the normalized title, find_image(title, distributor,
\* "Poster") returns a path to such a file, and to f itself when f is the only
\* one.
C1_ReturnsSomeCandidate ==
    (call.fn = "find_image" /\ call.folder_type = POSTER) =>
        LET cands == Range(Candidates(call.title, CalledNode.sub[POSTER]))
        IN  cands # {} =>
                \E e \in cands : result = ReturnPath(PathOf(call.distributor, POSTER, e))

C1_Witness ==
    /\ call.fn = "find_image"
    /\ call.folder_type = POSTER
    /\ call.title = Title_x
    /\ Len(Candidates(call.title, CalledNode.sub[POSTER])) = 1
    /\ result = ReturnPath(<<call.distributor, POSTER, SubDir, Name_X1>>)

\* the candidate the tie-break asks for: the first holding "(1)", else the first
\* holding "(2)", else the first
HasTag(tag, e) == Contains(tag, e.name)
FirstTagged(tag, cands) ==
    cands[CHOOSE k \in 1..Len(cands) :
              /\ HasTag(tag, cands[k])
              /\ \A m \in 1..(k - 1) : ~HasTag(tag, cands[m])]
TieBreak(cands) ==
    IF \E k \in 1..Len(cands) : HasTag(PRIORITY_1, cands[k])
    THEN FirstTagged(PRIORITY_1, cands)
    ELSE IF \E k \in 1..Len(cands) : HasTag(PRIORITY_2, cands[k])
    THEN FirstTagged(PRIORITY_2, cands)
    ELSE cands[1]

C3_FolderSelection ==
    (call.fn = "find_image" /\ CalledNode.kind = "dir") =>
        LET target == SelectedTarget(CalledNode, call.folder_type)
            folder == CalledNode.sub[target]
        IN  /\ Candidates(call.title, folder) # <<>> => result.kind = "path"
            /\ result.kind = "path" =>
                   \E e \in Range(Candidates(call.title, folder)) :
                       result.path = PathOf(call.distributor, target, e)
            /\ result.kind \in {"path", "none"}

\* category Still requested, the only "Poster" directory is "Horizontal Posters
\* Extra", and the Still folder holds a candidate of its own
C3_Witness ==
    /\ call.fn = "find_image"
    /\ call.folder_type = STILL
    /\ CalledNode.kind = "dir"
    /\ HorizontalCase(CalledNode)
    /\ Candidates(call.title, CalledNode.sub[STILL]) # <<>>
    /\ result.kind = "path"
    /\ result.path[2] = HorizontalPostersExtra

\* the distributor has no folder to search for the category: the distributor
\* path is absent, is no directory, or is a directory holding neither the
\* category folder nor a lone Horizontal Posters folder
NoCategoryFolder(node, folder_type) ==
    \/ node.kind \in {"absent", "file"}
    \/ /\ node.kind = "dir"
       /\ node.sub[folder_type].kind # "dir"
       /\ ~HorizontalCase(node)

\* C4: find_image and find_image_by_title_only called for a distributor with no
\* matching category folder (distributor path absent, a directory without the
\* category folder, or not a directory) return nothing and never raise.
C4_MissingFolderReturnsNone ==
    (ResolverCalled /\ NoCategoryFolder(CalledNode, call.folder_type)) =>
        result = ReturnNone

----------------------------------------------------------------------------
(* Properties of process_images, copy_image and update_images *)

Occurrences(seq, x) == Cardinality({k \in 1..Len(seq) : seq[k] = x})
TitleStrs == {StrStrip(t) : t \in RawTitles} \ {None, <<>>}
RunEnded == pc \in {"done", "aborted"}
PassOver == pc \in {"report", "done"}

\* C5: the title of a row with title and distributor is appended to the
\* unmatched list of its distributor exactly when neither its Poster copy nor
\* its Still copy returned a filename; a row with a successful copy adds nothing.
C5_UnmatchedBookkeeping ==
    \A d \in Distributors, t \in TitleStrs :
        Occurrences(ListOf(not_found, d), t) =
            Cardinality({k \in 1..Len(outcomes) :
                            /\ outcomes[k].valid
                            /\ outcomes[k].title = t
                            /\ outcomes[k].distributor = d
                            /\ outcomes[k].poster_name = None
                            /\ outcomes[k].still_name = None})

\* the first row was resolved but its copy failed and it is listed; the second
\* row was copied and is not listed
C5_Witness ==
    /\ PassOver
    /\ Len(outcomes) = 2
    /\ outcomes[1].valid /\ outcomes[2].valid
    /\ outcomes[1].poster_name = None /\ outcomes[1].still_name = None
    /\ copy_errors # <<>>
    /\ copy_errors[1][1] = outcomes[1].distributor
    /\ outcomes[1].title \in Range(ListOf(not_found, outcomes[1].distributor))
    /\ outcomes[2].still_name # None
    /\ outcomes[2].title \notin Range(ListOf(not_found, outcomes[2].distributor))

\* what a copy_image step has to do with the path it is given
CopyStepRight(path, name_after, pc_after) ==
    LET attempt == attempts'[Len(attempts')]
    IN  /\ Len(attempts') = Len(attempts) + 1
        /\ attempt.src = path
        /\ attempt.outcome = "ok" =>
               /\ name_after = NameOf(path)
               /\ copy_errors' = copy_errors
        /\ attempt.outcome # "ok" =>
               /\ name_after = None
               /\ copy_errors' = Append(copy_errors, path)
        /\ pc' = pc_after

\* C6: a copy that fails with a permission error or any other exception returns
\* no filename, appends the source path once to copy_errors and raises nothing,
\* and the loop goes on to the next row; a copy that succeeds returns the
\* filename and leaves copy_errors unchanged.
C6_CopyFailureHandling ==
    [][/\ (pc = "copy_poster" /\ poster_path # None) =>
              CopyStepRight(poster_path, poster_name', "copy_still")
       /\ (pc = "copy_still" /\ still_path # None) =>
              CopyStepRight(still_path, still_name', "record")
       /\ pc = "record" => (pc' = "loop" /\ i' = i + 1)]_vars

\* the Poster copy of the first row failed and the run went on; now the Poster
\* copy of the second row has failed with an exception other than a permission
\* error
C6_Witness ==
    /\ pc = "copy_still"
    /\ i = 1
    /\ outcomes[1].valid
    /\ outcomes[1].poster_name = None
    /\ attempts # <<>>
    /\ attempts[1].outcome = "OSError"
    /\ attempts[1].src = poster_path
    /\ poster_name = None
    /\ Len(copy_errors) = 2
    /\ copy_errors[2] = poster_path

\* C7: update_images changes a Poster or Still cell only in a row whose
\* normalized title is the normalized title of a key of the results holding a
\* filename for that column; every other cell and every title is left as it was.
C7_UpdateFrame ==
    \A r \in 1..Len(sheet) :
        /\ sheet[r].title = InitialSheet(catalog)[r].title
        /\ sheet[r].Poster # InitialSheet(catalog)[r].Poster =>
               \E k \in 1..Len(movie_data) :
                   /\ clean_string(movie_data[k].title) = clean_string(sheet[r].title)
                   /\ movie_data[k].Poster # None
        /\ sheet[r].Still # InitialSheet(catalog)[r].Still =>
               \E k \in 1..Len(movie_data) :
                   /\ clean_string(movie_data[k].title) = clean_string(sheet[r].title)
                   /\ movie_data[k].Still # None

\* after the update: the first row got a Poster filename and kept its empty
\* Still cell, the results holding no Still filename; the second row matches no
\* key and is as it was
C7_Witness ==
    /\ PassOver
    /\ Len(sheet) = 2
    /\ Len(movie_data) = 1
    /\ clean_string(movie_data[1].title) = clean_string(sheet[1].title)
    /\ movie_data[1].Still = None
    /\ sheet[1].Poster = Name_X
    /\ sheet[1].Still = None
    /\ clean_string(movie_data[1].title) # clean_string(sheet[2].title)
    /\ sheet[2] = InitialSheet(catalog)[2]

RECURSIVE EntryEvents(_)
EntryEvents(n) ==
    IF n = 0 THEN <<>> ELSE EntryEvents(n - 1) \o <<<<"entry", n>>, <<"recorded", n>>>>

\* C9: the rows are handled one at a time in catalog order, each once, then
\* update_images is called once, then generate_report once; no failure while
\* handling a row ends the run before the report is written.
C9_RunReachesReport ==
    RunEnded =>
        /\ events = EntryEvents(Len(catalog)) \o <<<<"update", 0>>, <<"report", 0>>>>
        /\ report # <<>>

\* C10: every filename a copy returned for a row with title and distributor is
\* in the results given to update_images, under the title of that row.
C10_CopiedNamesReachUpdater ==
    PassOver =>
        \A k \in 1..Len(outcomes) :
            outcomes[k].valid =>
                /\ outcomes[k].poster_name # None =>
                       /\ DictHas(movie_data, outcomes[k].title)
                       /\ DictGet(movie_data, outcomes[k].title).Poster # None
                /\ outcomes[k].still_name # None =>
                       /\ DictHas(movie_data, outcomes[k].title)
                       /\ DictGet(movie_data, outcomes[k].title).Still # None

====
